---- MODULE Spec2Model ----
(***************************************************************************)
(* State-machine model of DownloadApp (src/main.py): the Tk main thread    *)
(* (user handlers and the after(0, ...) callback queue), the batch-run     *)
(* threads with their ThreadPoolExecutor, the per-item retry threads, the  *)
(* resolver threads and the yt-dlp engine seen through its progress hook.  *)
(*                                                                         *)
(* Progress values are kept in tenths of a percent (the code formats with  *)
(* one decimal and parses the string back), so "40.0%" is 400.             *)
(***************************************************************************)
EXTENDS Integers, Sequences, FiniteSets, TLC

(* ------------------------------ bounds -------------------------------- *)

\* rows in the tree's history before the user stops adding references
MaxAdds == 1
\* rows ever inserted into the tree, playlist entries included
MaxItems == 2
\* batch runs ever started in the full specification
MaxRuns == 1
\* retry clicks in the full specification
MaxRetries == 1
\* "downloading" hook calls the engine makes during one fetch
MaxHooks == 1
\* callbacks a worker thread may find waiting in the Tk queue and still add one
MaxPending == 2
\* entries of a resolved playlist
MaxEntries == 1
\* rows present at the start of the pool specification beyond MAX_WORKERS
PoolExtra == 1
\* retry clicks in the pool specification
PoolRetries == 1
\* batch runs in the specification of repeated starts
RerunRuns == 2
\* references added in the resolver specification
ResolveAdds == 3
\* entries of a playlist in the resolver specification
ResolveEntries == 2
\* rows ever inserted in the resolver specification
ResolveItems == 5
\* batch runs in the specification with fairness
LiveRuns == 1

(* -------------------------- program constants ------------------------- *)

MAX_WORKERS == 4

(* ------------------------------ values -------------------------------- *)

\* A URL is modelled by the video id YoutubeIE.extract_id derives from it;
\* NoId is a URL extract_id raises on (find_existing_path returns None).
NoId == 0
VideoIds == {1}
Urls == VideoIds \cup {NoId}

\* "no value" markers for Optional arguments and for item_paths entries
None == "-"
NoPath == -1
NoProgress == -1
NoItem == 0
NoJob == 0

\* the status column's strings written by the code
ErrorStatuses == {"error", "error: failed", "error: User cancelled"}
ActiveStatuses == {"downloading", "postprocessing"}
TerminalStatuses == {"done", "skipped (exists)", "cancelled"} \cup ErrorStatuses

\* progress events of the engine: downloaded_bytes and total_bytes
\* (total 0 stands for a missing or zero total)
HookEvents == {[downloaded |-> 2, total |-> 5], [downloaded |-> 2, total |-> 0]}
\* the events the pool specification draws from
PoolEvents == {[downloaded |-> 2, total |-> 5]}

\* f"{percent*100:.1f}%" followed by float(progress.strip("%")), in tenths:
\* total = d.get("total_bytes") or d.get("total_bytes_estimate") or 1
Total(e) == IF e.total = 0 THEN 1 ELSE e.total
PercentTenths(e) == (2000 * e.downloaded + Total(e)) \div (2 * Total(e))

VARIABLES
    tree,            \* self.tree: item id -> row values (+ the writing attempt)
    nextId,          \* the id the next tree.insert returns
    item_paths,      \* self.item_paths
    item_progress,   \* self.item_progress
    global_progress, \* self.global_progress["value"], as sum / n
    cancelled,       \* self.cancelled
    download_btn,    \* state of self.download_btn
    status_var,      \* self.status_var
    uiq,             \* callbacks scheduled with self.after(0, ...), in order
    runs,            \* the _run_downloads threads
    jobs,            \* the _download_item calls (pool tasks and retry threads)
    resolving,       \* the _process_url threads: their reference and outcome
    files            \* video ids with an "<id> - *.mp3" in download_dir

vars == <<tree, nextId, item_paths, item_progress, global_progress, cancelled,
          download_btn, status_var, uiq, runs, jobs, resolving, files>>

(* ------------------------------ helpers ------------------------------- *)

RECURSIVE SumOver(_, _)
SumOver(f, S) ==
    IF S = {} THEN 0
    ELSE LET x == CHOOSE y \in S : TRUE IN f[x] + SumOver(f, S \ {x})

RECURSIVE SeqOfSet(_)
\* list(self.tree.get_children()): rows in insertion order, ids are increasing
SeqOfSet(S) ==
    IF S = {} THEN <<>>
    ELSE LET m == CHOOSE x \in S : \A y \in S : x <= y
         IN <<m>> \o SeqOfSet(S \ {m})

Drop(f, S) == [x \in DOMAIN f \ S |-> f[x]]
Put(f, k, v) == [x \in DOMAIN f \cup {k} |-> IF x = k THEN v ELSE f[x]]

\* a row of the tree; "by" records which _download_item call wrote the status
\* last (NoJob for the main thread's own writes)
Row(title, url, progress, status, by) ==
    [title |-> title, url |-> url, progress |-> progress, status |-> status,
     by |-> by]

Cb(kind, item, title, url, progress, status, job) ==
    [kind |-> kind, item |-> item, title |-> title, url |-> url,
     progress |-> progress, status |-> status, job |-> job]

\* self._update_row(item_id, title, progress, status): schedules update()
UpdateRow(item, title, progress, status, job) ==
    Cb("update", item, title, NoId, progress, status, job)

\* _update_global_progress over a given item_progress
GlobalProgressOf(ip) ==
    IF DOMAIN ip = {} THEN [sum |-> 0, n |-> 1]
    ELSE [sum |-> SumOver(ip, DOMAIN ip), n |-> Cardinality(DOMAIN ip)]

\* find_existing_path(url, dest_dir)
find_existing_path(url, fs) ==
    IF url = NoId THEN NoPath
    ELSE IF url \in fs THEN url ELSE NoPath

(* ------------------------------- Init --------------------------------- *)

\* DownloadApp.__init__ and _build_ui; the download directory holds any
\* subset of the outputs
Init ==
    /\ tree = <<>>
    /\ nextId = 1
    /\ item_paths = <<>>
    /\ item_progress = <<>>
    /\ global_progress = [sum |-> 0, n |-> 1]
    /\ cancelled = FALSE
    /\ download_btn = "normal"
    /\ status_var = "Idle"
    /\ uiq = <<>>
    /\ runs = <<>>
    /\ jobs = <<>>
    /\ resolving = <<>>
    /\ files \in SUBSET VideoIds

\* the registry after PoolSize references were added and resolved
PoolSize == MAX_WORKERS + PoolExtra
InitPool ==
    /\ tree = [i \in 1..PoolSize |-> Row("title", NoId, 0, "pending", NoJob)]
    /\ nextId = PoolSize + 1
    /\ item_paths = [i \in 1..PoolSize |-> NoPath]
    /\ item_progress = [i \in 1..PoolSize |-> 0]
    /\ global_progress = [sum |-> 0, n |-> PoolSize]
    /\ cancelled = FALSE
    /\ download_btn = "normal"
    /\ status_var = "Idle"
    /\ uiq = <<>>
    /\ runs = <<>>
    /\ jobs = <<>>
    /\ resolving = <<>>
    /\ files = {}

(* --------------------------- main thread ------------------------------ *)

PendingAdds == Cardinality({p \in 1..Len(uiq) : uiq[p].kind = "add_row"})

\* _add_row(title, url, "0%", "pending") on the given tree and dictionaries
AddRowTo(t, title, url) == Put(t, nextId, Row(title, url, 0, "pending", NoJob))

\* a _process_url thread: the reference it resolves and, once it has returned,
\* what the reference resolved to and how many entries it scheduled as rows
Resolver(url) == [url |-> url, outcome |-> None, children |-> 0]

Unresolved(item_id) ==
    item_id \in DOMAIN resolving /\ resolving[item_id].outcome = None

\* add_url: a placeholder row and a resolver thread
AddUrl(url, maxAdds) ==
    /\ nextId + PendingAdds <= maxAdds
    /\ tree' = AddRowTo(tree, "Resolving...", url)
    /\ item_paths' = Put(item_paths, nextId, NoPath)
    /\ item_progress' = Put(item_progress, nextId, 0)
    /\ nextId' = nextId + 1
    /\ resolving' = Put(resolving, nextId, Resolver(url))
    /\ UNCHANGED <<global_progress, cancelled, download_btn, status_var, uiq,
                   runs, jobs, files>>

\* remove_selected with selection S
RemoveSelected(S) ==
    /\ S # {}
    /\ S \subseteq DOMAIN tree
    /\ item_paths' = Drop(item_paths, S)
    /\ item_progress' = Drop(item_progress, S)
    /\ tree' = Drop(tree, S)
    /\ UNCHANGED <<nextId, global_progress, cancelled, download_btn, status_var,
                   uiq, runs, jobs, resolving, files>>

QueuedUpdates(ids) ==
    [k \in 1..Len(ids) |-> UpdateRow(ids[k], None, 0, "queued", NoJob)]

\* start_downloads (the button is clickable only while enabled)
StartDownloads(maxRuns) ==
    /\ download_btn = "normal"
    /\ Len(runs) < maxRuns
    /\ DOMAIN tree # {}
    /\ LET item_ids == SeqOfSet(DOMAIN tree)
       IN /\ uiq' = uiq \o QueuedUpdates(item_ids)
          /\ runs' = Append(runs, [items |-> item_ids, next |-> 1, pc |-> "start"])
    /\ status_var' = "Starting downloads..."
    /\ global_progress' = [sum |-> 0, n |-> 1]
    /\ cancelled' = FALSE
    /\ download_btn' = "disabled"
    /\ UNCHANGED <<tree, nextId, item_paths, item_progress, jobs, resolving, files>>

\* cancel_downloads
CancelDownloads ==
    /\ cancelled' = TRUE
    /\ status_var' = "Cancelling..."
    /\ download_btn' = "normal"
    /\ jobs' = [j \in 1..Len(jobs) |->
                  IF jobs[j].pc \in {"queued", "fetch_dl"}
                  THEN [jobs[j] EXCEPT !.cancel_req = TRUE]
                  ELSE jobs[j]]
    /\ UNCHANGED <<tree, nextId, item_paths, item_progress, global_progress, uiq,
                   runs, resolving, files>>

\* a _download_item call. run is the batch that submitted it (0: a retry
\* thread). The last four fields record its history for the properties: whether
\* the row was in an error state at the retry click, whether the retry's own
\* "queued" update has run on the main thread, how the call ended, and whether
\* Cancel was pressed while the call was waiting to start or, once it fetches,
\* while it was downloading.
Job(item, url, run, from_error) ==
    [item |-> item, url |-> url, run |-> run, pc |-> "queued", hooks |-> 0,
     from_error |-> from_error, announced |-> (run # 0), result |-> None,
     cancel_req |-> FALSE]

NumRetries == Cardinality({j \in 1..Len(jobs) : jobs[j].run = 0})

\* _retry_item without its _update_row call: the thread is started at once
RetryItem_NoQueued(item_id, maxRetries) ==
    /\ item_id \in DOMAIN tree
    /\ NumRetries < maxRetries
    /\ jobs' = Append(jobs, Job(item_id, tree[item_id].url, 0,
                                tree[item_id].status \in ErrorStatuses))
    /\ UNCHANGED <<tree, nextId, item_paths, item_progress, global_progress,
                   cancelled, download_btn, status_var, uiq, runs, resolving, files>>

\* _handle_click on the Retry column of row item_id -> _retry_item
RetryItem(item_id, maxRetries) ==
    /\ item_id \in DOMAIN tree
    /\ NumRetries < maxRetries
    /\ uiq' = Append(uiq, UpdateRow(item_id, None, 0, "queued", Len(jobs) + 1))
    /\ jobs' = Append(jobs, Job(item_id, tree[item_id].url, 0,
                                tree[item_id].status \in ErrorStatuses))
    /\ UNCHANGED <<tree, nextId, item_paths, item_progress, global_progress,
                   cancelled, download_btn, status_var, runs, resolving, files>>

\* update() of _update_row, remove_placeholder(), the lambda around _add_row
\* and the lambda that re-enables the button: the next after(0, ...) callback
ApplyUpdate(cb) ==
    IF cb.item \notin DOMAIN tree
    THEN \* self.tree.item raises TclError: the callback ends, nothing written
         UNCHANGED <<tree, item_progress, global_progress>>
    ELSE LET cur == tree[cb.item]
             ip == IF cb.progress # NoProgress
                   THEN Put(item_progress, cb.item, cb.progress)
                   ELSE item_progress
         IN /\ tree' = [tree EXCEPT ![cb.item] =
                   Row(IF cb.title # None THEN cb.title ELSE cur.title,
                       cur.url,
                       IF cb.progress # NoProgress THEN cb.progress ELSE cur.progress,
                       IF cb.status # None THEN cb.status ELSE cur.status,
                       IF cb.status # None THEN cb.job ELSE cur.by)]
            /\ item_progress' = ip
            /\ global_progress' = GlobalProgressOf(ip)

\* a retry's "queued" update has been handled by the main thread
Announce(cb) ==
    IF cb.kind = "update" /\ cb.job # NoJob /\ cb.status = "queued"
    THEN [jobs EXCEPT ![cb.job].announced = TRUE]
    ELSE jobs

ProcessUI ==
    /\ uiq # <<>>
    /\ LET cb == Head(uiq)
       IN /\ uiq' = Tail(uiq)
          /\ jobs' = Announce(cb)
          /\ CASE cb.kind = "update" ->
                    /\ ApplyUpdate(cb)
                    /\ UNCHANGED <<nextId, item_paths, download_btn>>
               [] cb.kind = "remove_placeholder" ->
                    /\ IF cb.item \in DOMAIN tree
                       THEN /\ tree' = Drop(tree, {cb.item})
                            /\ item_paths' = Drop(item_paths, {cb.item})
                            /\ item_progress' = Drop(item_progress, {cb.item})
                       ELSE UNCHANGED <<tree, item_paths, item_progress>>
                    /\ UNCHANGED <<nextId, global_progress, download_btn>>
               [] cb.kind = "add_row" ->
                    /\ tree' = AddRowTo(tree, cb.title, cb.url)
                    /\ item_paths' = Put(item_paths, nextId, NoPath)
                    /\ item_progress' = Put(item_progress, nextId, 0)
                    /\ nextId' = nextId + 1
                    /\ UNCHANGED <<global_progress, download_btn>>
               [] cb.kind = "enable_btn" ->
                    /\ download_btn' = "normal"
                    /\ UNCHANGED <<tree, nextId, item_paths, item_progress,
                                   global_progress>>
    /\ UNCHANGED <<cancelled, status_var, runs, resolving, files>>

(* ------------------------- resolver threads --------------------------- *)

\* a thread other than the main thread schedules a callback
CanSchedule == Len(uiq) < MaxPending

\* _process_url: extract_info raised or returned None
ResolveFails(item_id) ==
    /\ Unresolved(item_id)
    /\ CanSchedule
    /\ uiq' = Append(uiq, UpdateRow(item_id, "url", NoProgress, None, NoJob))
    /\ resolving' = [resolving EXCEPT ![item_id].outcome = "failed"]
    /\ UNCHANGED <<tree, nextId, item_paths, item_progress, global_progress,
                   cancelled, download_btn, status_var, runs, jobs, files>>

\* _process_url: a single video
ResolveSingle(item_id) ==
    /\ Unresolved(item_id)
    /\ CanSchedule
    /\ uiq' = Append(uiq, UpdateRow(item_id, "title", NoProgress, None, NoJob))
    /\ resolving' = [resolving EXCEPT ![item_id].outcome = "single"]
    /\ UNCHANGED <<tree, nextId, item_paths, item_progress, global_progress,
                   cancelled, download_btn, status_var, runs, jobs, files>>

\* _process_url: a playlist whose entries have the urls es
ResolvePlaylist(item_id, es, maxItems) ==
    /\ Unresolved(item_id)
    /\ CanSchedule
    /\ Len(es) >= 1
    /\ nextId - 1 + PendingAdds + Len(es) <= maxItems
    /\ uiq' = uiq \o <<Cb("remove_placeholder", item_id, None, NoId, NoProgress, None, NoJob)>>
                  \o [k \in 1..Len(es) |->
                        Cb("add_row", NoItem, "title", es[k], NoProgress, None, NoJob)]
    /\ resolving' = [resolving EXCEPT ![item_id].outcome = "collection",
                                      ![item_id].children = Len(es)]
    /\ UNCHANGED <<tree, nextId, item_paths, item_progress, global_progress,
                   cancelled, download_btn, status_var, runs, jobs, files>>

\* _process_url: a playlist without entries; info.get("entries") is falsy at
\* line 176 and the else branch writes the playlist's own title
ResolveEmptyPlaylist(item_id) ==
    /\ Unresolved(item_id)
    /\ CanSchedule
    /\ uiq' = Append(uiq, UpdateRow(item_id, "playlist", NoProgress, None, NoJob))
    /\ resolving' = [resolving EXCEPT ![item_id].outcome = "collection"]
    /\ UNCHANGED <<tree, nextId, item_paths, item_progress, global_progress,
                   cancelled, download_btn, status_var, runs, jobs, files>>

(* --------------------------- batch threads ---------------------------- *)

JobsOf(r) == {j \in 1..Len(jobs) : jobs[j].run = r}
Fetching(j) == jobs[j].pc \in {"fetch_dl", "fetch_pp", "fetch_failed"}

\* _run_downloads, line 219
RunStart(r) ==
    /\ r \in 1..Len(runs)
    /\ runs[r].pc = "start"
    /\ runs' = [runs EXCEPT ![r].pc = "submit"]
    /\ status_var' = "Downloading..."
    /\ UNCHANGED <<tree, nextId, item_paths, item_progress, global_progress,
                   cancelled, download_btn, uiq, jobs, resolving, files>>

\* one round of the submit loop, lines 223-225; tree.item raises TclError for
\* a removed row and the thread ends after the executor's shutdown
RunSubmit(r) ==
    /\ r \in 1..Len(runs)
    /\ runs[r].pc = "submit"
    /\ LET item_id == runs[r].items[runs[r].next]
       IN IF item_id \in DOMAIN tree
          THEN /\ jobs' = Append(jobs, Job(item_id, tree[item_id].url, r, FALSE))
               /\ runs' = [runs EXCEPT ![r].next = @ + 1,
                              ![r].pc = IF runs[r].next = Len(runs[r].items)
                                        THEN "wait" ELSE "submit"]
          ELSE /\ jobs' = jobs
               /\ runs' = [runs EXCEPT ![r].pc = "crashed"]
    /\ UNCHANGED <<tree, nextId, item_paths, item_progress, global_progress,
                   cancelled, download_btn, status_var, uiq, resolving, files>>

\* every future.result() has returned and the executor has shut down:
\* lines 229-231
RunFinish(r) ==
    /\ r \in 1..Len(runs)
    /\ runs[r].pc = "wait"
    /\ \A j \in JobsOf(r) : jobs[j].pc = "returned"
    /\ CanSchedule
    /\ uiq' = Append(uiq, Cb("enable_btn", NoItem, None, NoId, NoProgress, None, NoJob))
    /\ status_var' = "Done"
    /\ runs' = [runs EXCEPT ![r].pc = "done"]
    /\ UNCHANGED <<tree, nextId, item_paths, item_progress, global_progress,
                   cancelled, download_btn, jobs, resolving, files>>

(* --------------------------- _download_item --------------------------- *)

\* an executor that starts a thread for every submitted task
CanDispatch_NoLimit(j) ==
    \/ jobs[j].run = 0
    \/ \A k \in JobsOf(jobs[j].run) : k < j => jobs[k].pc # "queued"

\* ThreadPoolExecutor(max_workers=MAX_WORKERS): a submitted task starts when
\* it is the oldest waiting task of its pool and a worker thread is free or can
\* still be created; a retry thread (run 0) starts at once
CanDispatch(j) ==
    \/ jobs[j].run = 0
    \/ /\ \A k \in JobsOf(jobs[j].run) : k < j => jobs[k].pc # "queued"
       /\ Cardinality({k \in JobsOf(jobs[j].run) : Fetching(k)}) < MAX_WORKERS

\* the call's last _update_row and its return
Finish(j, update, result) ==
    /\ CanSchedule
    /\ uiq' = Append(uiq, update)
    /\ jobs' = [jobs EXCEPT ![j].pc = "returned", ![j].result = result]

\* _download_item without the check of self.cancelled at line 258
DownloadItemStart_NoCancelCheck(j) ==
    /\ j \in 1..Len(jobs)
    /\ jobs[j].pc = "queued"
    /\ CanDispatch(j)
    /\ LET item_id == jobs[j].item
           existing_path == find_existing_path(jobs[j].url, files)
       IN IF existing_path # NoPath
          THEN /\ item_paths' = Put(item_paths, item_id, existing_path)
               /\ Finish(j, UpdateRow(item_id, None, 1000, "skipped (exists)", j), "skipped")
          ELSE /\ item_paths' = item_paths
               /\ uiq' = uiq
               /\ jobs' = [jobs EXCEPT ![j].pc = "fetch_dl", ![j].cancel_req = FALSE]
    /\ UNCHANGED <<tree, nextId, item_progress, global_progress, cancelled,
                   download_btn, status_var, runs, resolving, files>>

\* lines 253-260: the locator, then the cancellation flag, then the engine
DownloadItemStart(j) ==
    /\ j \in 1..Len(jobs)
    /\ jobs[j].pc = "queued"
    /\ CanDispatch(j)
    /\ LET item_id == jobs[j].item
           existing_path == find_existing_path(jobs[j].url, files)
       IN IF existing_path # NoPath
          THEN /\ item_paths' = Put(item_paths, item_id, existing_path)
               /\ Finish(j, UpdateRow(item_id, None, 1000, "skipped (exists)", j), "skipped")
          ELSE IF cancelled
          THEN /\ item_paths' = item_paths
               /\ Finish(j, UpdateRow(item_id, None, 0, "cancelled", j), "cancelled")
          ELSE /\ item_paths' = item_paths
               /\ uiq' = uiq
               /\ jobs' = [jobs EXCEPT ![j].pc = "fetch_dl", ![j].cancel_req = FALSE]
    /\ UNCHANGED <<tree, nextId, item_progress, global_progress, cancelled,
                   download_btn, status_var, runs, resolving, files>>

\* progress_hook raised DownloadCancelled (line 242); extract_info lets it
\* through and line 288 catches it as an Exception
HookCancelled(j) ==
    Finish(j, UpdateRow(jobs[j].item, None, 0, "error: User cancelled", j), "aborted")

\* progress_hook with status "downloading", lines 240-247
HookDownloading(j, e) ==
    /\ j \in 1..Len(jobs)
    /\ jobs[j].pc = "fetch_dl"
    /\ jobs[j].hooks < MaxHooks
    /\ IF cancelled
       THEN HookCancelled(j)
       ELSE /\ CanSchedule
            /\ uiq' = Append(uiq, UpdateRow(jobs[j].item, None, PercentTenths(e),
                                            "downloading", j))
            /\ jobs' = [jobs EXCEPT ![j].hooks = @ + 1]
    /\ UNCHANGED <<tree, nextId, item_paths, item_progress, global_progress,
                   cancelled, download_btn, status_var, runs, resolving, files>>

\* progress_hook with status "finished", lines 248-249
HookFinished(j) ==
    /\ j \in 1..Len(jobs)
    /\ jobs[j].pc = "fetch_dl"
    /\ IF cancelled
       THEN HookCancelled(j)
       ELSE /\ CanSchedule
            /\ uiq' = Append(uiq, UpdateRow(jobs[j].item, None, 1000,
                                            "postprocessing", j))
            /\ jobs' = [jobs EXCEPT ![j].pc = "fetch_pp"]
    /\ UNCHANGED <<tree, nextId, item_paths, item_progress, global_progress,
                   cancelled, download_btn, status_var, runs, resolving, files>>

\* progress_hook with status "error", lines 250-251; the engine raises next
HookError(j) ==
    /\ j \in 1..Len(jobs)
    /\ jobs[j].pc = "fetch_dl"
    /\ IF cancelled
       THEN HookCancelled(j)
       ELSE /\ CanSchedule
            /\ uiq' = Append(uiq, UpdateRow(jobs[j].item, None, 0, "error", j))
            /\ jobs' = [jobs EXCEPT ![j].pc = "fetch_failed"]
    /\ UNCHANGED <<tree, nextId, item_paths, item_progress, global_progress,
                   cancelled, download_btn, status_var, runs, resolving, files>>

\* an exception that is recorded and then unwinds the batch: the tasks of the
\* same run that still wait are dropped
EngineRaises_AbortsPool(j) ==
    /\ j \in 1..Len(jobs)
    /\ Fetching(j)
    /\ CanSchedule
    /\ uiq' = Append(uiq, UpdateRow(jobs[j].item, None, 0, "error: failed", j))
    /\ jobs' = [k \in 1..Len(jobs) |->
                  IF k = j
                  THEN [jobs[k] EXCEPT !.pc = "returned", !.result = "raised"]
                  ELSE IF jobs[k].run = jobs[j].run /\ jobs[k].pc = "queued"
                       THEN [jobs[k] EXCEPT !.pc = "returned"]
                       ELSE jobs[k]]
    /\ UNCHANGED <<tree, nextId, item_paths, item_progress, global_progress,
                   cancelled, download_btn, status_var, runs, resolving, files>>

\* extract_info or prepare_filename raised: lines 288-289
EngineRaises(j) ==
    /\ j \in 1..Len(jobs)
    /\ Fetching(j)
    /\ Finish(j, UpdateRow(jobs[j].item, None, 0, "error: failed", j), "raised")
    /\ UNCHANGED <<tree, nextId, item_paths, item_progress, global_progress,
                   cancelled, download_btn, status_var, runs, resolving, files>>

\* _download_item whose completed fetch does not record the output path
EngineReturns_NoPath(j) ==
    /\ j \in 1..Len(jobs)
    /\ jobs[j].pc = "fetch_pp"
    /\ files' = IF jobs[j].url = NoId THEN files ELSE files \cup {jobs[j].url}
    /\ item_paths' = item_paths
    /\ Finish(j, UpdateRow(jobs[j].item, None, 1000, "done", j), "done")
    /\ UNCHANGED <<tree, nextId, item_progress, global_progress, cancelled,
                   download_btn, status_var, runs, resolving>>

\* extract_info returned after the postprocessor wrote the mp3: lines 283-287
EngineReturns(j) ==
    /\ j \in 1..Len(jobs)
    /\ jobs[j].pc = "fetch_pp"
    /\ files' = IF jobs[j].url = NoId THEN files ELSE files \cup {jobs[j].url}
    /\ item_paths' = Put(item_paths, jobs[j].item, jobs[j].url)
    /\ Finish(j, UpdateRow(jobs[j].item, None, 1000, "done", j), "done")
    /\ UNCHANGED <<tree, nextId, item_progress, global_progress, cancelled,
                   download_btn, status_var, runs, resolving>>

(* --------------------------- specifications --------------------------- *)

EntryLists == UNION {[1..n -> Urls] : n \in 1..MaxEntries}

Next ==
    \/ \E u \in Urls : AddUrl(u, MaxAdds)
    \/ \E S \in SUBSET DOMAIN tree : RemoveSelected(S)
    \/ StartDownloads(MaxRuns)
    \/ CancelDownloads
    \/ \E i \in DOMAIN tree : RetryItem(i, MaxRetries)
    \/ ProcessUI
    \/ \E i \in DOMAIN resolving : ResolveFails(i)
    \/ \E i \in DOMAIN resolving : ResolveSingle(i)
    \/ \E i \in DOMAIN resolving, es \in EntryLists : ResolvePlaylist(i, es, MaxItems)
    \/ \E i \in DOMAIN resolving : ResolveEmptyPlaylist(i)
    \/ \E r \in 1..Len(runs) : RunStart(r)
    \/ \E r \in 1..Len(runs) : RunSubmit(r)
    \/ \E r \in 1..Len(runs) : RunFinish(r)
    \/ \E j \in 1..Len(jobs) : DownloadItemStart(j)
    \/ \E j \in 1..Len(jobs), e \in HookEvents : HookDownloading(j, e)
    \/ \E j \in 1..Len(jobs) : HookFinished(j)
    \/ \E j \in 1..Len(jobs) : HookError(j)
    \/ \E j \in 1..Len(jobs) : EngineRaises(j)
    \/ \E j \in 1..Len(jobs) : EngineReturns(j)

Spec == Init /\ [][Next]_vars

\* One resolved row, any number of batch starts up to RerunRuns and no retry:
\* the Download button pressed again after Cancel re-enabled it
InitOne ==
    /\ tree = [i \in 1..1 |-> Row("title", NoId, 0, "pending", NoJob)]
    /\ nextId = 2
    /\ item_paths = [i \in 1..1 |-> NoPath]
    /\ item_progress = [i \in 1..1 |-> 0]
    /\ global_progress = [sum |-> 0, n |-> 1]
    /\ cancelled = FALSE
    /\ download_btn = "normal"
    /\ status_var = "Idle"
    /\ uiq = <<>>
    /\ runs = <<>>
    /\ jobs = <<>>
    /\ resolving = <<>>
    /\ files = {}

NextRerun ==
    \/ StartDownloads(RerunRuns)
    \/ CancelDownloads
    \/ ProcessUI
    \/ \E r \in 1..Len(runs) : RunStart(r)
    \/ \E r \in 1..Len(runs) : RunSubmit(r)
    \/ \E r \in 1..Len(runs) : RunFinish(r)
    \/ \E j \in 1..Len(jobs) : DownloadItemStart(j)
    \/ \E j \in 1..Len(jobs), e \in PoolEvents : HookDownloading(j, e)
    \/ \E j \in 1..Len(jobs) : HookFinished(j)
    \/ \E j \in 1..Len(jobs) : HookError(j)
    \/ \E j \in 1..Len(jobs) : EngineRaises(j)
    \/ \E j \in 1..Len(jobs) : EngineReturns(j)

SpecRerun == InitOne /\ [][NextRerun]_vars

\* The registry already holds PoolSize resolved rows; one batch run that is
\* not cancelled, no rows added or removed, no retry
NextPool ==
    \/ StartDownloads(1)
    \/ ProcessUI
    \/ \E r \in 1..Len(runs) : RunStart(r)
    \/ \E r \in 1..Len(runs) : RunSubmit(r)
    \/ \E r \in 1..Len(runs) : RunFinish(r)
    \/ \E j \in 1..Len(jobs) : DownloadItemStart(j)
    \/ \E j \in 1..Len(jobs), e \in PoolEvents : HookDownloading(j, e)
    \/ \E j \in 1..Len(jobs) : HookFinished(j)
    \/ \E j \in 1..Len(jobs) : EngineRaises(j)
    \/ \E j \in 1..Len(jobs) : EngineReturns(j)

SpecPool == InitPool /\ [][NextPool]_vars

\* The same registry with retry clicks beside the batch run; every fetch
\* succeeds, from its "finished" callback to its return
NextPoolRetry ==
    \/ StartDownloads(1)
    \/ \E i \in DOMAIN tree : RetryItem(i, PoolRetries)
    \/ ProcessUI
    \/ \E r \in 1..Len(runs) : RunStart(r)
    \/ \E r \in 1..Len(runs) : RunSubmit(r)
    \/ \E r \in 1..Len(runs) : RunFinish(r)
    \/ \E j \in 1..Len(jobs) : DownloadItemStart(j)
    \/ \E j \in 1..Len(jobs) : HookFinished(j)
    \/ \E j \in 1..Len(jobs) : EngineReturns(j)

SpecPoolRetry == InitPool /\ [][NextPoolRetry]_vars

\* The registry holds PoolSize resolved rows; the rows beyond the first
\* MAX_WORKERS have their output in the download directory already
InitPoolSkip ==
    /\ tree = [i \in 1..PoolSize |->
                 Row("title", IF i > MAX_WORKERS THEN 1 ELSE NoId, 0, "pending", NoJob)]
    /\ nextId = PoolSize + 1
    /\ item_paths = [i \in 1..PoolSize |-> NoPath]
    /\ item_progress = [i \in 1..PoolSize |-> 0]
    /\ global_progress = [sum |-> 0, n |-> PoolSize]
    /\ cancelled = FALSE
    /\ download_btn = "normal"
    /\ status_var = "Idle"
    /\ uiq = <<>>
    /\ runs = <<>>
    /\ jobs = <<>>
    /\ resolving = <<>>
    /\ files = {1}

NextPoolSkip ==
    \/ StartDownloads(1)
    \/ ProcessUI
    \/ \E r \in 1..Len(runs) : RunStart(r)
    \/ \E r \in 1..Len(runs) : RunSubmit(r)
    \/ \E r \in 1..Len(runs) : RunFinish(r)
    \/ \E j \in 1..Len(jobs) : DownloadItemStart(j)
    \/ \E j \in 1..Len(jobs) : HookFinished(j)
    \/ \E j \in 1..Len(jobs) : EngineReturns(j)

SpecPoolSkip == InitPoolSkip /\ [][NextPoolSkip]_vars

\* One resolved row, one batch run, removal and cancellation at any time. The
\* main loop runs every scheduled callback, every started thread keeps running
\* and every engine call goes on until it returns or raises.
NextLive ==
    \/ \E S \in SUBSET DOMAIN tree : RemoveSelected(S)
    \/ StartDownloads(LiveRuns)
    \/ CancelDownloads
    \/ ProcessUI
    \/ \E r \in 1..Len(runs) : RunStart(r)
    \/ \E r \in 1..Len(runs) : RunSubmit(r)
    \/ \E r \in 1..Len(runs) : RunFinish(r)
    \/ \E j \in 1..Len(jobs) : DownloadItemStart(j)
    \/ \E j \in 1..Len(jobs), e \in PoolEvents : HookDownloading(j, e)
    \/ \E j \in 1..Len(jobs) : HookFinished(j)
    \/ \E j \in 1..Len(jobs) : HookError(j)
    \/ \E j \in 1..Len(jobs) : EngineRaises(j)
    \/ \E j \in 1..Len(jobs) : EngineReturns(j)

EngineStep ==
    \/ \E j \in 1..Len(jobs), e \in PoolEvents : HookDownloading(j, e)
    \/ \E j \in 1..Len(jobs) : HookFinished(j)
    \/ \E j \in 1..Len(jobs) : HookError(j)
    \/ \E j \in 1..Len(jobs) : EngineRaises(j)
    \/ \E j \in 1..Len(jobs) : EngineReturns(j)

Fairness ==
    /\ WF_vars(ProcessUI)
    /\ WF_vars(\E r \in 1..Len(runs) : RunStart(r))
    /\ WF_vars(\E r \in 1..Len(runs) : RunSubmit(r))
    /\ WF_vars(\E r \in 1..Len(runs) : RunFinish(r))
    /\ WF_vars(\E j \in 1..Len(jobs) : DownloadItemStart(j))
    /\ WF_vars(EngineStep)

SpecLive == InitOne /\ [][NextLive]_vars /\ Fairness

\* References are added and resolved; nothing is removed by the user and no
\* download is started
ResolveEntryLists == UNION {[1..n -> {NoId}] : n \in 1..ResolveEntries}

NextResolve ==
    \/ \E u \in Urls : AddUrl(u, ResolveAdds)
    \/ ProcessUI
    \/ \E i \in DOMAIN resolving : ResolveFails(i)
    \/ \E i \in DOMAIN resolving : ResolveSingle(i)
    \/ \E i \in DOMAIN resolving, es \in ResolveEntryLists :
          ResolvePlaylist(i, es, ResolveItems)
    \/ \E i \in DOMAIN resolving : ResolveEmptyPlaylist(i)

SpecResolve == Init /\ [][NextResolve]_vars

(* ------------------------------ properties ---------------------------- *)

Last(q) == q[Len(q)]

\* job j has returned and the main thread has run all its updates
Settled(j) ==
    /\ jobs[j].pc = "returned"
    /\ \A p \in 1..Len(uiq) : uiq[p].job # j

\* rows whose Downloading/Postprocessing status was written by workers of run r
ActiveOf(r) ==
    {i \in DOMAIN tree : /\ tree[i].status \in ActiveStatuses
                         /\ tree[i].by # NoJob
                         /\ jobs[tree[i].by].run = r}

\* C1: within one batch run at most MAX_WORKERS of the run's items are in
\* Downloading or Postprocessing at the same time, and an item whose task is
\* still waiting for a worker has not been written by that task: it stays
\* Queued.
C1_AtMostWActivePerRun ==
    /\ \A r \in 1..Len(runs) : Cardinality(ActiveOf(r)) <= MAX_WORKERS
    /\ \A j \in 1..Len(jobs) :
          (jobs[j].run # 0 /\ jobs[j].pc = "queued" /\ jobs[j].item \in DOMAIN tree)
             => /\ tree[jobs[j].item].by # j
                /\ \A p \in 1..Len(uiq) : uiq[p].job # j

\* all MAX_WORKERS workers are busy with rows shown as active while a further
\* item of the same run still waits in Queued
C1_Witness ==
    \E r \in 1..Len(runs) :
       /\ Cardinality(ActiveOf(r)) = MAX_WORKERS
       /\ \E i \in DOMAIN tree : tree[i].status = "downloading"
       /\ \E j \in JobsOf(r) : /\ jobs[j].pc = "queued"
                               /\ tree[jobs[j].item].status = "queued"

\* C2: retries share the limit: the total number of items in Downloading or
\* Postprocessing never exceeds MAX_WORKERS.
C2_TotalActiveAtMostW ==
    Cardinality({i \in DOMAIN tree : tree[i].status \in ActiveStatuses}) <= MAX_WORKERS

\* C3: when a batch run returns, every item submitted to it (and still in the
\* registry) is in a terminal state.
C3_RunReturnsAllTerminal ==
    [][\A r \in 1..Len(runs) :
          (runs[r].pc = "wait" /\ runs'[r].pc = "done")
             => \A k \in 1..Len(runs[r].items) :
                   runs[r].items[k] \in DOMAIN tree'
                      => tree'[runs[r].items[k]].status \in TerminalStatuses]_vars

\* C4: an attempt whose progress callback saw the cancellation and aborted the
\* fetch leaves its item in Cancelled.
C4_AbortEndsCancelled ==
    \A i \in DOMAIN tree :
       LET j == tree[i].by
       IN (j # NoJob /\ jobs[j].result = "aborted" /\ Settled(j))
             => tree[i].status = "cancelled"

\* the main thread runs the last update of an attempt that was aborted by the
\* cancellation, on a row that exists
AppliesAbort(i) ==
    /\ uiq # <<>>
    /\ uiq' = Tail(uiq)
    /\ Head(uiq).kind = "update"
    /\ Head(uiq).item = i
    /\ Head(uiq).job # NoJob
    /\ jobs[Head(uiq).job].result = "aborted"
    /\ Head(uiq).status \notin {"queued", "downloading", "postprocessing", "error"}
    /\ i \in DOMAIN tree

\* C5: the cancellation of a fetch leaves the item's progress as it was.
C5_AbortKeepsProgress ==
    [][\A i \in DOMAIN tree : AppliesAbort(i) => tree'[i].progress = tree[i].progress]_vars

C7_InFlightAborted ==
    [][\A j \in 1..Len(jobs) :
          (/\ jobs[j].pc = "fetch_dl"
           /\ jobs[j].cancel_req
           /\ jobs'[j] # jobs[j]
           /\ jobs'[j].result # "raised")
             => jobs'[j].result = "aborted"]_vars

\* C8: a retry's attempt is moved to Cancelled only by a cancellation requested
\* during that attempt, never by an earlier request.
C8_RetryNotCancelledByEarlierRequest ==
    \A j \in 1..Len(jobs) :
       (jobs[j].run = 0 /\ jobs[j].result = "cancelled") => jobs[j].cancel_req

\* the status an attempt's last update writes
StatusOf(result) ==
    CASE result = "skipped" -> "skipped (exists)"
      [] result = "cancelled" -> "cancelled"
      [] result = "aborted" -> "error: User cancelled"
      [] result = "raised" -> "error: failed"
      [] result = "done" -> "done"

\* C9: a row is written only by attempts on that row, so the failure of A's
\* fetch is recorded on A (Error with a detail string) and every sibling ends in
\* the state its own attempt reached; a run returns only after every submitted
\* item was processed, whatever failed before.
C9_FailureIsolated ==
    /\ \A i \in DOMAIN tree :
          LET j == tree[i].by
          IN j # NoJob =>
                /\ jobs[j].item = i
                /\ Settled(j) => tree[i].status = StatusOf(jobs[j].result)
    /\ \A r \in 1..Len(runs) :
          runs[r].pc = "done" =>
             /\ Cardinality(JobsOf(r)) = Len(runs[r].items)
             /\ \A j \in JobsOf(r) : jobs[j].result # None

\* a finished run in which one fetch failed and a later sibling completed
C9_Witness ==
    \E r \in 1..Len(runs) :
       /\ runs[r].pc = "done"
       /\ uiq = <<>>
       /\ \E a, b \in JobsOf(r) :
             /\ a < b
             /\ jobs[a].result = "raised"
             /\ tree[jobs[a].item].status = "error: failed"
             /\ jobs[b].result = "done"
             /\ tree[jobs[b].item].status = "done"

C11_GlobalProgressIsMean ==
    IF DOMAIN item_progress = {}
    THEN global_progress.sum = 0
    ELSE global_progress.sum * Cardinality(DOMAIN item_progress)
            = SumOver(item_progress, DOMAIN item_progress) * global_progress.n

\* every resolver thread has returned and the main thread has run every
\* callback the threads scheduled
ResolutionFinished ==
    /\ uiq = <<>>
    /\ \A i \in DOMAIN resolving : resolving[i].outcome # None

ResolvedAs(o) == {i \in DOMAIN resolving : resolving[i].outcome = o}

RECURSIVE ChildrenOf(_)
ChildrenOf(S) ==
    IF S = {} THEN 0
    ELSE LET x == CHOOSE y \in S : TRUE
         IN resolving[x].children + ChildrenOf(S \ {x})

\* C12: after the resolution of every submitted reference has finished the
\* registry holds one item for each reference that resolved to a single item or
\* failed (titled with the raw reference), one item per child of each
\* collection, no placeholder of a collection, and nothing marked as resolving.
C12_RegistryAfterResolution ==
    ResolutionFinished =>
       /\ \A i \in ResolvedAs("failed") : i \in DOMAIN tree /\ tree[i].title = "url"
       /\ \A i \in ResolvedAs("single") : i \in DOMAIN tree
       /\ \A i \in ResolvedAs("collection") : i \notin DOMAIN tree
       /\ Cardinality(DOMAIN tree) =
             Cardinality(ResolvedAs("failed")) + Cardinality(ResolvedAs("single"))
                + ChildrenOf(ResolvedAs("collection"))
       /\ \A i \in DOMAIN tree : tree[i].title # "Resolving..."

\* C13: an item that was removed is absent from the registry and from every
\* derived structure in every later state: no worker re-inserts it.
C13_RemovedStaysAbsent ==
    /\ DOMAIN item_paths \subseteq DOMAIN tree
    /\ DOMAIN item_progress \subseteq DOMAIN tree

\* C14: an item's state changes only along the edges of the item state machine;
\* a batch start moves only a Pending item to Queued and a retry only an Error,
\* Skipped or Cancelled item.
C14_OnlyEdges ==
    [][LET Edge(s, t) ==
              \/ s = "pending" /\ t = "queued"
              \/ s = "queued" /\ t \in {"skipped (exists)", "cancelled", "downloading"}
                                          \cup ErrorStatuses
              \/ s = "downloading" /\ t \in {"downloading", "postprocessing", "cancelled"}
                                               \cup ErrorStatuses
              \/ s = "postprocessing" /\ t \in {"done", "cancelled"} \cup ErrorStatuses
              \/ s \in {"skipped (exists)", "cancelled"} \cup ErrorStatuses /\ t = "queued"
       IN \A i \in DOMAIN tree \cap DOMAIN tree' :
             tree'[i].status # tree[i].status =>
                /\ Edge(tree[i].status, tree'[i].status)
                /\ tree'[i].status = "queued" =>
                      IF tree'[i].by = NoJob
                      THEN tree[i].status = "pending"
                      ELSE tree[i].status # "pending"]_vars

\* C15: at any time at most one fetch attempt is in flight for a given item.
C15_OneFetchPerItem ==
    \A j, k \in 1..Len(jobs) :
       (j # k /\ Fetching(j) /\ Fetching(k)) => jobs[j].item # jobs[k].item

\* C16: an item whose output already exists reaches Skipped without a worker
\* slot: its call can start while MAX_WORKERS other items of the batch occupy
\* all the workers.
C16_SkipNeedsNoWorker ==
    \A j \in 1..Len(jobs) :
       (/\ jobs[j].pc = "queued"
        /\ jobs[j].run # 0
        /\ find_existing_path(jobs[j].url, files) # NoPath
        /\ \A k \in JobsOf(jobs[j].run) : k < j => jobs[k].pc # "queued"
        /\ Cardinality({k \in JobsOf(jobs[j].run) : Fetching(k)}) = MAX_WORKERS
        /\ uiq = <<>>)
          => ENABLED DownloadItemStart(j)

\* C17: an item whose state is Done or Skipped has its output path set.
C17_DoneOrSkippedHasPath ==
    \A i \in DOMAIN tree :
       tree[i].status \in {"done", "skipped (exists)"}
          => i \in DOMAIN item_paths /\ item_paths[i] # NoPath

\* a fetch completed on a row that is still in the registry: Done with its path
C17_Witness ==
    \E i \in DOMAIN tree :
       /\ tree[i].status = "done"
       /\ tree[i].by # NoJob
       /\ jobs[tree[i].by].result = "done"
       /\ item_paths[i] # NoPath

\* C18: every item's progress is within [0, 100] (0..1000 tenths).
C18_ProgressInRange ==
    /\ \A i \in DOMAIN tree : tree[i].progress \in 0..1000
    /\ \A i \in DOMAIN item_progress : item_progress[i] \in 0..1000

\* C19: while an item is in Downloading or Postprocessing its progress never
\* decreases, and it is set back to 0 only by a transition into Queued or Error.
C19_ProgressMonotone ==
    [][\A i \in DOMAIN tree \cap DOMAIN tree' :
          /\ (tree[i].status \in ActiveStatuses /\ tree'[i].status \in ActiveStatuses)
                => tree'[i].progress >= tree[i].progress
          /\ (tree[i].progress > 0 /\ tree'[i].progress = 0)
                => tree'[i].status \in {"queued"} \cup ErrorStatuses]_vars

\* C20: every started batch run eventually returns (status "Done", completion
\* notification) and the Download button is enabled again.
C20_RunEventuallyReturns ==
    \A r \in 1..LiveRuns :
       (Len(runs) >= r) ~>
          (Len(runs) >= r /\ runs[r].pc = "done" /\ download_btn = "normal")

\* a batch run whose thread has not ended or whose workers have not all
\* returned
RunActive(r) ==
    \/ runs[r].pc \notin {"done", "crashed"}
    \/ \E j \in JobsOf(r) : jobs[j].pc # "returned"

\* C21: at most one batch run is active at a time: the Download button is
\* disabled while a run is active, so no second run starts while fetches of an
\* earlier run are in flight.
C21_OneActiveRun ==
    /\ Cardinality({r \in 1..Len(runs) : RunActive(r)}) <= 1
    /\ (\E r \in 1..Len(runs) : RunActive(r)) => download_btn = "disabled"

====
